---- MODULE Spec2Model ----
(***************************************************************************)
(* A model of two headers of the Swift front end:                          *)
(*   include/swift/Parse/PersistentParserState.h  (PersistentParserState)  *)
(*   include/swift/SIL/SILType.h                  (SILType)                *)
(* The parser state is modelled as three independent groups of fields      *)
(* (the code-completion delayed decl, the marked parser position, the      *)
(* delayed decl lists), each with its own specification; the operations of *)
(* one group never read or write the fields of another.                    *)
(***************************************************************************)
EXTENDS Naturals, Integers, Sequences, FiniteSets, TLC

\* ------------------------------------------------------------------------
\* Bounds of the model
\* ------------------------------------------------------------------------
\* Source locations are 0 (the invalid SourceLoc) and 1..MaxLoc.
MaxLoc == 3
\* How many DelayedDeclState objects are allocated in one behaviour.
MaxDelays == 2
\* Parser positions are 0 (the invalid ParserPosition) and 1..MaxPos.
MaxPos == 2
\* How many of the latest calls on the marked position are remembered.
HistLen == 3
\* How many delayDeclList calls are made in one behaviour.
MaxQueue == 3
\* The width of a pointer in bits: addresses are 0 .. 2^WordBits - 1.
WordBits == 7
\* The tuple element indices a client asks for are 0 .. TupleIndexLimit.
TupleIndexLimit == 2

\* ------------------------------------------------------------------------
\* Value domains
\* ------------------------------------------------------------------------
DelayedDeclKind == {"TopLevelCodeDecl", "Decl", "FunctionBody"}

\* Values of the opaque "unsigned Flags" argument.
FlagValues == {0, 1}

\* DeclContext objects the parser may name as the parent context.
DeclContexts == {"ctxA", "ctxB"}

\* SourceRange values handed to delayDecl together with a PreviousLoc: a
\* non-empty body range and the location of the token before it.
SourceRanges == {r \in [Start : 1..MaxLoc, End : 1..MaxLoc] : r.Start < r.End}

PreviousLocs(range) == 0 .. (range.Start - 1)

\* ------------------------------------------------------------------------
\* State
\* ------------------------------------------------------------------------
VARIABLES
  CodeCompletionDelayedDeclState, \* unique_ptr<DelayedDeclState>: [addr, ...]
  nextAddr,       \* identity given to the next DelayedDeclState allocated
  declOp,         \* the operation of the delayed-decl group executed last
  declPrevOp,     \* the one before it
  declArgs,       \* the arguments of the last delayDecl / delayTopLevel
  declRet,        \* what the last operation returned: [tag, val]
  takenLog,       \* addresses of the records handed out by take, in order
  MarkedPos,      \* ParserPosition MarkedPos
  InPoundLineEnvironment, \* bool InPoundLineEnvironment
  posHist,        \* the latest calls of mark/takeParserPosition, oldest first
  posCalls,       \* how many such calls were made, counted up to HistLen + 1
  DelayedDeclLists, \* std::vector<IterableDeclContext *> DelayedDeclLists
  delayedLog,     \* the arguments of all delayDeclList calls, in call order
  parsedLog,      \* the contexts whose members were parsed, in parse order
  listOp,         \* the operation on the delayed decl lists executed last
  queueBefore,    \* DelayedDeclLists when the last parseAll... was entered
  invoked,        \* the contexts the last parseAll... called the parser on
  parseFailed,    \* whether the last parseAll... ended in a failure
  handle,         \* the SILType values the client holds: slot -> encoded word
  silOp,          \* the SILType operation executed last
  silArgs,        \* its arguments
  silRet,         \* the SILType it returned (an encoded word)
  silFlag,        \* the bool the last predicate on a SILType returned
  assertsEnabled, \* whether the build compiles assert() in (no NDEBUG)
  aborted         \* an assertion failed or a null pointer was dereferenced

declVars == <<CodeCompletionDelayedDeclState, nextAddr, declOp, declPrevOp,
              declArgs, declRet, takenLog>>

posVars == <<MarkedPos, InPoundLineEnvironment, posHist, posCalls>>

listVars == <<DelayedDeclLists, delayedLog, parsedLog, listOp, queueBefore,
              invoked, parseFailed>>

silVars == <<handle, silOp, silArgs, silRet, silFlag, assertsEnabled>>

vars == <<declVars, posVars, listVars, silVars, aborted>>

\* ------------------------------------------------------------------------
\* PersistentParserState: the code-completion delayed decl
\* ------------------------------------------------------------------------
\* An empty std::unique_ptr.
NullState == [addr |-> 0]

NoArgs == [op |-> "none"]

NoRet == [tag |-> "void", val |-> 0]

\* The constructor with the two ends of the body range mixed up.
DelayedDeclState_Swapped(Kind, Flags, ParentContext, BodyRange, PreviousLoc) ==
  [Kind          |-> Kind,
   Flags         |-> Flags,
   ParentContext |-> ParentContext,
   BodyPos       |-> [Loc |-> BodyRange.End, PrevLoc |-> PreviousLoc],
   BodyEnd       |-> BodyRange.Start]

\* DelayedDeclState's constructor (the SavedScope member is left out: its
\* type is not part of these headers).
DelayedDeclState(Kind, Flags, ParentContext, BodyRange, PreviousLoc) ==
  [Kind          |-> Kind,
   Flags         |-> Flags,
   ParentContext |-> ParentContext,
   BodyPos       |-> [Loc |-> BodyRange.Start, PrevLoc |-> PreviousLoc],
   BodyEnd       |-> BodyRange.End]

\* "new DelayedDeclState(...)": the object at a fresh address.
NewState(addr, obj) ==
  [addr          |-> addr,
   Kind          |-> obj.Kind,
   Flags         |-> obj.Flags,
   ParentContext |-> obj.ParentContext,
   BodyPos       |-> obj.BodyPos,
   BodyEnd       |-> obj.BodyEnd]

hasDelayedDecl == CodeCompletionDelayedDeclState.addr # 0

\* The three inspectors: each reads one field through the pointer.
getDelayedDeclKind == CodeCompletionDelayedDeclState.Kind

getDelayedDeclLoc == CodeCompletionDelayedDeclState.BodyPos.Loc

getDelayedDeclContext == CodeCompletionDelayedDeclState.ParentContext

Step(op) ==
  /\ declOp' = op
  /\ declPrevOp' = declOp

DelayArgs(Kind, Flags, ParentContext, BodyRange, PreviousLoc) ==
  [op            |-> "delay",
   Kind          |-> Kind,
   Flags         |-> Flags,
   ParentContext |-> ParentContext,
   BodyRange     |-> BodyRange,
   PreviousLoc   |-> PreviousLoc]

\* delayDecl without its precondition: the pending record is replaced.
delayDecl_Overwrite(Kind, Flags, ParentContext, BodyRange, PreviousLoc) ==
  /\ ~aborted
  /\ nextAddr <= MaxDelays
  /\ CodeCompletionDelayedDeclState' =
       NewState(nextAddr, DelayedDeclState(Kind, Flags, ParentContext,
                                           BodyRange, PreviousLoc))
  /\ nextAddr' = nextAddr + 1
  /\ declArgs' = DelayArgs(Kind, Flags, ParentContext, BodyRange, PreviousLoc)
  /\ declRet' = NoRet
  /\ Step("delayDecl")
  /\ UNCHANGED <<takenLog, aborted, posVars, listVars, silVars>>

\* delayDecl: fatal when a code-completion delayed decl is pending, otherwise
\* a new DelayedDeclState is stored in the slot.
delayDecl(Kind, Flags, ParentContext, BodyRange, PreviousLoc) ==
  /\ ~aborted
  /\ IF hasDelayedDecl
       THEN /\ aborted' = TRUE
            /\ Step("delayDecl")
            /\ UNCHANGED <<CodeCompletionDelayedDeclState, nextAddr, declArgs,
                           declRet, takenLog, posVars, listVars, silVars>>
       ELSE /\ nextAddr <= MaxDelays
            /\ CodeCompletionDelayedDeclState' =
                 NewState(nextAddr, DelayedDeclState(Kind, Flags, ParentContext,
                                                     BodyRange, PreviousLoc))
            /\ nextAddr' = nextAddr + 1
            /\ declArgs' = DelayArgs(Kind, Flags, ParentContext, BodyRange,
                                     PreviousLoc)
            /\ declRet' = NoRet
            /\ Step("delayDecl")
            /\ UNCHANGED <<takenLog, aborted, posVars, listVars, silVars>>

\* delayTopLevel: delayDecl for top-level code, with kind TopLevelCodeDecl,
\* no flags, and the TopLevelCodeDecl itself as the parent context.
delayTopLevel(TLCD, BodyRange, PreviousLoc) ==
  /\ delayDecl("TopLevelCodeDecl", 0, TLCD, BodyRange, PreviousLoc)

\* A call of hasDelayedDecl().
Call_hasDelayedDecl ==
  /\ ~aborted
  /\ declRet' = [tag |-> "bool", val |-> hasDelayedDecl]
  /\ Step("hasDelayedDecl")
  /\ UNCHANGED <<CodeCompletionDelayedDeclState, nextAddr, declArgs, takenLog,
                 aborted, posVars, listVars, silVars>>

\* A call of an inspector. With no record pending the pointer is null and the
\* read through it is undefined: the process dies, or the call returns some
\* value of the field's type.
Inspect(op, tag, value, domain) ==
  /\ ~aborted
  /\ Step(op)
  /\ UNCHANGED <<CodeCompletionDelayedDeclState, nextAddr, declArgs, takenLog,
                 posVars, listVars, silVars>>
  /\ IF hasDelayedDecl
       THEN /\ declRet' = [tag |-> tag, val |-> value]
            /\ UNCHANGED aborted
       ELSE \/ /\ aborted' = TRUE
               /\ UNCHANGED declRet
            \/ /\ \E v \in domain : declRet' = [tag |-> tag, val |-> v]
               /\ UNCHANGED aborted

Call_getDelayedDeclKind ==
  Inspect("getDelayedDeclKind", "kind",
          IF hasDelayedDecl THEN getDelayedDeclKind ELSE 0, DelayedDeclKind)

Call_getDelayedDeclLoc ==
  Inspect("getDelayedDeclLoc", "loc",
          IF hasDelayedDecl THEN getDelayedDeclLoc ELSE 0, 0..MaxLoc)

Call_getDelayedDeclContext ==
  Inspect("getDelayedDeclContext", "context",
          IF hasDelayedDecl THEN getDelayedDeclContext ELSE 0, DeclContexts)

\* takeDelayedDeclState returning a copy of the pointer: the slot keeps it.
takeDelayedDeclState_Copy ==
  /\ ~aborted
  /\ declRet' = [tag |-> "state", val |-> CodeCompletionDelayedDeclState]
  /\ takenLog' = IF hasDelayedDecl
                   THEN Append(takenLog, CodeCompletionDelayedDeclState.addr)
                   ELSE takenLog
  /\ Step("takeDelayedDeclState")
  /\ UNCHANGED <<CodeCompletionDelayedDeclState, nextAddr, declArgs, aborted,
                 posVars, listVars, silVars>>

\* takeDelayedDeclState: std::move of the unique_ptr; the caller gets the
\* pointer and the slot is left null.
takeDelayedDeclState ==
  /\ ~aborted
  /\ declRet' = [tag |-> "state", val |-> CodeCompletionDelayedDeclState]
  /\ CodeCompletionDelayedDeclState' = NullState
  /\ takenLog' = IF hasDelayedDecl
                   THEN Append(takenLog, CodeCompletionDelayedDeclState.addr)
                   ELSE takenLog
  /\ Step("takeDelayedDeclState")
  /\ UNCHANGED <<nextAddr, declArgs, aborted, posVars, listVars, silVars>>

DeclInit ==
  /\ CodeCompletionDelayedDeclState = NullState
  /\ nextAddr = 1
  /\ declOp = "init"
  /\ declPrevOp = "init"
  /\ declArgs = NoArgs
  /\ declRet = NoRet
  /\ takenLog = <<>>

\* ------------------------------------------------------------------------
\* PersistentParserState: the marked parser position
\* ------------------------------------------------------------------------
\* A default-constructed ParserPosition, which is not valid.
InvalidPosition == 0

ParserPositions == InvalidPosition .. MaxPos

\* The latest HistLen calls: the window slides, the calls go on.
Remember(event) ==
  /\ posHist' = LET all == Append(posHist, event)
                IN  IF Len(all) > HistLen THEN Tail(all) ELSE all
  /\ posCalls' = IF posCalls > HistLen THEN posCalls ELSE posCalls + 1

MarkEvent(Pos, flag) == [op |-> "mark", pos |-> Pos, flag |-> flag]

TakeEvent(Pos) == [op |-> "take", pos |-> Pos, flag |-> FALSE]

\* markParserPosition that keeps a position that is already marked.
markParserPosition_KeepFirst(Pos, InPoundLineEnv) ==
  /\ ~aborted
  /\ IF MarkedPos = InvalidPosition
       THEN /\ MarkedPos' = Pos
            /\ InPoundLineEnvironment' = InPoundLineEnv
       ELSE UNCHANGED <<MarkedPos, InPoundLineEnvironment>>
  /\ Remember(MarkEvent(Pos, InPoundLineEnv))
  /\ UNCHANGED <<declVars, listVars, silVars, aborted>>

markParserPosition(Pos, InPoundLineEnv) ==
  /\ ~aborted
  /\ MarkedPos' = Pos
  /\ InPoundLineEnvironment' = InPoundLineEnv
  /\ Remember(MarkEvent(Pos, InPoundLineEnv))
  /\ UNCHANGED <<declVars, listVars, silVars, aborted>>

\* takeParserPosition that returns the position and leaves it marked.
takeParserPosition_NoReset ==
  /\ ~aborted
  /\ Remember(TakeEvent(MarkedPos))
  /\ UNCHANGED <<MarkedPos, InPoundLineEnvironment, declVars, listVars, silVars, aborted>>

\* takeParserPosition that also clears the #line flag.
takeParserPosition_ClearsFlag ==
  /\ ~aborted
  /\ Remember(TakeEvent(MarkedPos))
  /\ MarkedPos' = InvalidPosition
  /\ InPoundLineEnvironment' = FALSE
  /\ UNCHANGED <<declVars, listVars, silVars, aborted>>

\* takeParserPosition: Pos = MarkedPos; MarkedPos = ParserPosition();
\* return Pos.
takeParserPosition ==
  /\ ~aborted
  /\ Remember(TakeEvent(MarkedPos))
  /\ MarkedPos' = InvalidPosition
  /\ UNCHANGED <<InPoundLineEnvironment, declVars, listVars, silVars, aborted>>

PosInit ==
  /\ MarkedPos = InvalidPosition
  /\ InPoundLineEnvironment = FALSE
  /\ posHist = <<>>
  /\ posCalls = 0

\* ------------------------------------------------------------------------
\* PersistentParserState: the delayed decl lists
\* ------------------------------------------------------------------------
\* IterableDeclContext objects whose member lists the parser may skip.
IterableDeclContexts == {"idcA", "idcB"}

\* delayDeclList that puts the context in front of the queue.
delayDeclList_PushFront(D) ==
  /\ ~aborted
  /\ Len(delayedLog) < MaxQueue
  /\ DelayedDeclLists' = <<D>> \o DelayedDeclLists
  /\ delayedLog' = Append(delayedLog, D)
  /\ listOp' = "delayDeclList"
  /\ UNCHANGED <<parsedLog, queueBefore, invoked, parseFailed>>
  /\ UNCHANGED <<declVars, posVars, silVars, aborted>>

\* delayDeclList: appends the context to DelayedDeclLists.
delayDeclList(D) ==
  /\ ~aborted
  /\ Len(delayedLog) < MaxQueue
  /\ DelayedDeclLists' = Append(DelayedDeclLists, D)
  /\ delayedLog' = Append(delayedLog, D)
  /\ listOp' = "delayDeclList"
  /\ UNCHANGED <<parsedLog, queueBefore, invoked, parseFailed>>
  /\ UNCHANGED <<declVars, posVars, silVars, aborted>>

\* parseAllDelayedDeclLists that takes each entry off the queue before
\* parsing it: the entry whose parse fails is lost.
parseAllDelayedDeclLists_RemoveFirst(n) ==
  /\ ~aborted
  /\ n \in 0..Len(DelayedDeclLists)
  /\ queueBefore' = DelayedDeclLists
  /\ parseFailed' = (n < Len(DelayedDeclLists))
  /\ invoked' = SubSeq(DelayedDeclLists, 1,
                       IF n < Len(DelayedDeclLists) THEN n + 1 ELSE n)
  /\ parsedLog' = parsedLog \o SubSeq(DelayedDeclLists, 1, n)
  /\ DelayedDeclLists' =
       SubSeq(DelayedDeclLists,
              (IF n < Len(DelayedDeclLists) THEN n + 1 ELSE n) + 1,
              Len(DelayedDeclLists))
  /\ listOp' = "parseAllDelayedDeclLists"
  /\ UNCHANGED delayedLog
  /\ UNCHANGED <<declVars, posVars, silVars, aborted>>

\* parseAllDelayedDeclLists: parses the members of the queued contexts from
\* the front of the queue, removing each entry once its parse has succeeded.
\* The parser is outside this class: how many parses succeed before one
\* fails (n, all of them when n is the length of the queue) is an input.
parseAllDelayedDeclLists(n) ==
  /\ ~aborted
  /\ n \in 0..Len(DelayedDeclLists)
  /\ queueBefore' = DelayedDeclLists
  /\ parseFailed' = (n < Len(DelayedDeclLists))
  /\ invoked' = SubSeq(DelayedDeclLists, 1,
                       IF n < Len(DelayedDeclLists) THEN n + 1 ELSE n)
  /\ parsedLog' = parsedLog \o SubSeq(DelayedDeclLists, 1, n)
  /\ DelayedDeclLists' = SubSeq(DelayedDeclLists, n + 1, Len(DelayedDeclLists))
  /\ listOp' = "parseAllDelayedDeclLists"
  /\ UNCHANGED delayedLog
  /\ UNCHANGED <<declVars, posVars, silVars, aborted>>

ListInit ==
  /\ DelayedDeclLists = <<>>
  /\ delayedLog = <<>>
  /\ parsedLog = <<>>
  /\ listOp = "init"
  /\ queueBefore = <<>>
  /\ invoked = <<>>
  /\ parseFailed = FALSE

\* ------------------------------------------------------------------------
\* SILType: a CanType pointer and a SILValueCategory packed in one word
\* ------------------------------------------------------------------------
\* enum class SILValueCategory : uint8_t { Object, Address }.
Object == 0

Address == 1

SILValueCategory == {Object, Address}

\* PointerIntPair<TypeBase *, 2, unsigned>: the low IntBits bits of the word
\* hold the integer, so a TypeBase is aligned to 2^IntBits bytes at least.
IntBits == 2

PtrUnit == 2 ^ IntBits

\* The type nodes of the AST context, by index; the node with index k lives
\* at address k * PtrUnit. "of" is the index of the node a node refers to
\* (the superclass of a class, the payload of an Optional, the referent of
\* a reference storage type, the instance type of a metatype; 0: none),
\* "elements" the element types of a tuple. Function and LValue are formal
\* types that SIL lowering eliminates.
Node(kind, rep, of, elements) ==
  [kind |-> kind, rep |-> rep, of |-> of, elements |-> elements]

TypeTable ==
  << Node("Struct", "", 0, <<>>),
     Node("Class", "", 0, <<>>),
     Node("Class", "", 2, <<>>),
     Node("SILFunction", "Block", 0, <<>>),
     Node("SILFunction", "Thick", 0, <<>>),
     Node("Optional", "", 4, <<>>),
     Node("Optional", "", 6, <<>>),
     Node("Optional", "", 5, <<>>),
     Node("Tuple", "", 0, <<1, 3>>),
     Node("WeakStorage", "", 3, <<>>),
     Node("Metatype", "", 2, <<>>),
     Node("Metatype", "", 1, <<>>),
     Node("Function", "", 0, <<>>),
     Node("LValue", "", 0, <<>>) >>

\* The address of the node with index k (the null pointer for k = 0).
TypePointer(k) == k * PtrUnit

\* A null CanType.
NullType == 0

TypePointers == {k * PtrUnit : k \in 1..Len(TypeTable)}

\* CanType values: null or the address of a type node.
CanTypes == {NullType} \cup TypePointers

TypeNode(ty) == TypeTable[ty \div PtrUnit]

\* TypeBase::isLegalSILType: false of the formal types SIL lowering removes.
isLegalSILType(ty) == TypeNode(ty).kind \notin {"Function", "LValue"}

LegalTypes == {ty \in TypePointers : isLegalSILType(ty)}

\* PointerIntPair(ptr, int): the pointer with the integer in its low bits.
PointerIntPair(ptr, int) == ptr + (int % PtrUnit)

\* PointerIntPair::getPointer and getInt.
getPointer(value) == value - (value % PtrUnit)

getInt(value) == value % PtrUnit

\* The constructor storing the pointer alone: the category is lost.
SILType_DropsCategory(ty, category) == PointerIntPair(ty, Object)

\* SILType(CanType ty, SILValueCategory category): the value it builds.
SILType(ty, category) == PointerIntPair(ty, category)

\* The constructor without its assert.
ConstructorAssertHolds_Missing(ty) == TRUE

\* The assert of that constructor: a null type skips it.
ConstructorAssertHolds(ty) == ty = NullType \/ isLegalSILType(ty)

\* SILType() = default: a null pointer and a zero integer.
DefaultSILType == 0

getPrimitiveType(T, category) == SILType(T, category)

getPrimitiveObjectType(T) == SILType(T, Object)

getPrimitiveAddressType(T) == SILType(T, Address)

isNull(value) == getPointer(value) = NullType

getCategory(value) == getInt(value)

getASTType(value) == getPointer(value)

\* getCategoryType or-ing the category into the word it already has.
getCategoryType_KeepsOldBits(value, Category) == IF Category = Address THEN getPointer(value) + Address ELSE value

\* getCategoryType, copyCategory, getAddressType, getObjectType: a new
\* SILType of the same AST type.
getCategoryType(value, Category) == SILType(getASTType(value), Category)

copyCategory(value, Ty) == getCategoryType(value, getCategory(Ty))

getAddressType(value) == SILType(getASTType(value), Address)

getObjectType(value) == SILType(getASTType(value), Object)

getOpaqueValue(value) == value

getFromOpaqueValue(P) == P

\* The number of addresses; pointer arithmetic wraps around at it.
AddressSpace == 2 ^ WordBits

RECURSIVE Xor(_, _)
\* Bitwise exclusive or of two naturals.
Xor(a, b) ==
  IF a = 0 THEN b
  ELSE IF b = 0 THEN a
  ELSE (((a % 2) + (b % 2)) % 2) + 2 * Xor(a \div 2, b \div 2)

\* llvm::DenseMapInfo<void *>: the two reserved pointers are -1 and -2
\* shifted left by the low bits a void * leaves free, and the hash mixes
\* two right shifts of the pointer.
PointerMapInfo_getEmptyKey == ((AddressSpace - 1) * PtrUnit) % AddressSpace

PointerMapInfo_getTombstoneKey == ((AddressSpace - 2) * PtrUnit) % AddressSpace

PointerMapInfo_getHashValue(PtrVal) == Xor(PtrVal \div 16, PtrVal \div 512)

\* llvm::hash_value of a pointer: a fixed mixing of the pointer's value.
llvm_hash_value(ptr) == ((ptr * 31) + (ptr \div PtrUnit)) % AddressSpace

\* hash_value(SILType): the hash of its opaque value.
hash_value(V) == llvm_hash_value(getOpaqueValue(V))

\* getEmptyKey returning a default-constructed SILType.
getEmptyKey_Default == DefaultSILType

\* DenseMapInfo<SILType>.
getEmptyKey == getFromOpaqueValue(PointerMapInfo_getEmptyKey)

getTombstoneKey == getFromOpaqueValue(PointerMapInfo_getTombstoneKey)

getHashValue(t) == PointerMapInfo_getHashValue(getOpaqueValue(t))

\* operator== comparing the type pointers only.
OpEq_PointerOnly(lhs, rhs) == getPointer(lhs) = getPointer(rhs)

\* operator== and operator!=: on the opaque values.
OpEq(lhs, rhs) == getOpaqueValue(lhs) = getOpaqueValue(rhs)

OpNe(lhs, rhs) == getOpaqueValue(lhs) # getOpaqueValue(rhs)

isEqual(LHS, RHS) == OpEq(LHS, RHS)

\* explicit operator bool, isObject and isAddress.
OperatorBool(value) == getPointer(value) # NullType

isAddress(value) == getCategory(value) = Address

isObject(value) == getCategory(value) = Object

\* dyn_cast<TYPE>(ty): the type itself if its node is of the kind asked
\* for, the null type otherwise; getAs on a SILType casts its AST type.
dyn_cast(ty, kind) == IF TypeNode(ty).kind = kind THEN ty ELSE NullType

getAs(value, kind) == dyn_cast(getASTType(value), kind)

\* SILFunctionType::getRepresentation.
getRepresentation(fTy) == TypeNode(fTy).rep

\* getOptionalObjectType: the payload of an Optional in the category of
\* the handle, the null SILType for a type that is not an Optional.
getOptionalObjectType(value) ==
  IF TypeNode(getASTType(value)).kind = "Optional"
    THEN SILType(TypePointer(TypeNode(getASTType(value)).of),
                 getCategory(value))
    ELSE DefaultSILType

\* isBlockPointerCompatible looking through two levels of optionality.
isBlockPointerCompatible_TwoLevels(value) ==
  LET optPayload == getOptionalObjectType(value)
      ty1 == IF OperatorBool(optPayload) THEN optPayload ELSE value
      optPayload2 == getOptionalObjectType(ty1)
      ty == IF OperatorBool(optPayload2) THEN optPayload2 ELSE ty1
      fTy == getAs(ty, "SILFunction")
  IN  IF fTy = NullType THEN FALSE ELSE getRepresentation(fTy) = "Block"

\* isBlockPointerCompatible: look through one level of optionality, then
\* ask for a SILFunctionType of Block representation.
isBlockPointerCompatible(value) ==
  LET optPayload == getOptionalObjectType(value)
      ty == IF OperatorBool(optPayload) THEN optPayload ELSE value
      fTy == getAs(ty, "SILFunction")
  IN  IF fTy = NullType THEN FALSE ELSE getRepresentation(fTy) = "Block"

\* TypeBase::getClassOrBoundGenericClass: the class a type names (here the
\* address of its node; a "Class" node stands for a class type, generic
\* arguments bound or none), null for any other type.
getClassOrBoundGenericClass(t) ==
  IF TypeNode(t).kind = "Class" THEN t ELSE NullType

\* AnyMetatypeType::getInstanceType.
getInstanceType(meta) == TypePointer(TypeNode(meta).of)

\* static bool isClassOrClassMetatype(Type t).
isClassOrClassMetatype_Type(t) ==
  LET meta == dyn_cast(t, "Metatype")
  IN  IF meta # NullType
        THEN getClassOrBoundGenericClass(getInstanceType(meta)) # NullType
        ELSE getClassOrBoundGenericClass(t) # NullType

\* The member isClassOrClassMetatype testing for a non-null handle in place
\* of an object handle.
isClassOrClassMetatype_AnyCategory(value) ==
  OperatorBool(value) /\ isClassOrClassMetatype_Type(getASTType(value))

\* bool isClassOrClassMetatype(): the member function.
isClassOrClassMetatype(value) ==
  isObject(value) /\ isClassOrClassMetatype_Type(getASTType(value))

\* cast<TYPE>(ty): the type itself; its node is of the kind asked for, or
\* the call is a programming error.
castTo(value, kind) == getASTType(value)

\* TupleType::getNumElements and getElementType (indices from 0).
getNumElements(ty) == Len(TypeNode(ty).elements)

getElementType(ty, index) == TypePointer(TypeNode(ty).elements[index + 1])

\* getTupleElementType: the element type in the category of the tuple.
getTupleElementType(value, index) ==
  SILType(getElementType(castTo(value, "Tuple"), index), getCategory(value))

\* CanType::getReferenceStorageReferent: the referent of a reference
\* storage type, any other type itself.
getReferenceStorageReferent(ty) ==
  IF TypeNode(ty).kind = "WeakStorage"
    THEN TypePointer(TypeNode(ty).of)
    ELSE ty

getReferenceStorageReferentType(value) ==
  SILType(getReferenceStorageReferent(getASTType(value)), getCategory(value))

\* TypeBase::getSuperclass: the superclass of a class type that has one,
\* the null type otherwise.
getSuperclass_Type(ty) ==
  IF TypeNode(ty).kind = "Class" /\ TypeNode(ty).of # 0
    THEN TypePointer(TypeNode(ty).of)
    ELSE NullType

\* getSuperclass giving the superclass in the category of the handle.
getSuperclass_KeepsCategory(value) ==
  LET superclass == getSuperclass_Type(getASTType(value))
  IN  IF superclass = NullType
        THEN DefaultSILType
        ELSE getPrimitiveType(superclass, getCategory(value))

\* getSuperclass: the null SILType, or the superclass as an object type.
getSuperclass(value) ==
  LET superclass == getSuperclass_Type(getASTType(value))
  IN  IF superclass = NullType
        THEN DefaultSILType
        ELSE getPrimitiveObjectType(superclass)

Slots == {1, 2}

\* A call of one of the static constructors, its result kept in a slot. In
\* a build with asserts a non-null type that is not a legal SIL type stops
\* the process; in a build without them the value is built all the same.
Construct(op, slot, T, category, value) ==
  /\ ~aborted
  /\ silOp' = op
  /\ silArgs' = [slot |-> slot, T |-> T, category |-> category]
  /\ IF assertsEnabled /\ ~ConstructorAssertHolds(T)
       THEN /\ aborted' = TRUE
            /\ UNCHANGED <<handle, silRet>>
       ELSE /\ handle' = [handle EXCEPT ![slot] = value]
            /\ silRet' = value
            /\ UNCHANGED aborted
  /\ UNCHANGED <<silFlag, assertsEnabled, declVars, posVars, listVars>>

Call_getPrimitiveType(slot, T, category) ==
  Construct("getPrimitiveType", slot, T, category,
            getPrimitiveType(T, category))

Call_getPrimitiveObjectType(slot, T) ==
  Construct("getPrimitiveObjectType", slot, T, Object,
            getPrimitiveObjectType(T))

Call_getPrimitiveAddressType(slot, T) ==
  Construct("getPrimitiveAddressType", slot, T, Address,
            getPrimitiveAddressType(T))

\* A call of a member function that builds a SILType from the handle in
\* slot "from" through the checking constructor; T is the type handed to
\* the constructor and category the category asked for. The handle is null
\* or refers to a type node: the two DenseMap keys are only ever compared,
\* hashed and copied.
Derive(op, slot, from, T, category, value) ==
  /\ ~aborted
  /\ getASTType(handle[from]) \in CanTypes
  /\ silOp' = op
  /\ silArgs' = [slot |-> slot, T |-> T, category |-> category,
                 self |-> handle[from]]
  /\ IF assertsEnabled /\ ~ConstructorAssertHolds(T)
       THEN /\ aborted' = TRUE
            /\ UNCHANGED <<handle, silRet>>
       ELSE /\ handle' = [handle EXCEPT ![slot] = value]
            /\ silRet' = value
            /\ UNCHANGED aborted
  /\ UNCHANGED <<silFlag, assertsEnabled, declVars, posVars, listVars>>

Call_getCategoryType(slot, from, Category) ==
  Derive("getCategoryType", slot, from, getASTType(handle[from]), Category,
         getCategoryType(handle[from], Category))

Call_copyCategory(slot, from, other) ==
  Derive("copyCategory", slot, from, getASTType(handle[from]),
         getCategory(handle[other]),
         copyCategory(handle[from], handle[other]))

Call_getAddressType(slot, from) ==
  Derive("getAddressType", slot, from, getASTType(handle[from]), Address,
         getAddressType(handle[from]))

Call_getObjectType(slot, from) ==
  Derive("getObjectType", slot, from, getASTType(handle[from]), Object,
         getObjectType(handle[from]))

\* A call of a predicate on the handle in slot "from". Where the predicate
\* reads the type node of a null handle ("undefined") the call goes through
\* a null pointer: the process stops or goes on with either answer.
Query(op, from, undefined, result) ==
  /\ ~aborted
  /\ getASTType(handle[from]) \in CanTypes
  /\ silOp' = op
  /\ silArgs' = [slot |-> from, T |-> getASTType(handle[from]),
                 category |-> getCategory(handle[from]),
                 self |-> handle[from]]
  /\ IF undefined
       THEN \/ /\ aborted' = TRUE
               /\ UNCHANGED silFlag
            \/ /\ silFlag' \in BOOLEAN
               /\ UNCHANGED aborted
       ELSE /\ silFlag' = result
            /\ UNCHANGED aborted
  /\ UNCHANGED <<handle, silRet, assertsEnabled, declVars, posVars, listVars>>

Call_isBlockPointerCompatible(from) ==
  Query("isBlockPointerCompatible", from, isNull(handle[from]),
        isBlockPointerCompatible(handle[from]))

\* The member tests isObject() first, so only a null object handle makes
\* it read a type node through a null pointer.
Call_isClassOrClassMetatype(from) ==
  Query("isClassOrClassMetatype", from,
        isObject(handle[from]) /\ isNull(handle[from]),
        isClassOrClassMetatype(handle[from]))

\* What a call with undefined behaviour may leave as its result: any
\* SILType that gets past the constructor of the build.
UndefinedResults ==
  {SILType(t, c) :
     t \in IF assertsEnabled THEN {NullType} \cup LegalTypes ELSE CanTypes,
     c \in SILValueCategory}

\* A call of a projection on the handle in slot "from", its result kept in
\* a slot; T is the type handed to the checking constructor. Where the
\* call is not defined (a null handle, a type of the wrong shape, an index
\* out of range) the process stops, or, unless an assert of the build
\* catches it ("asserted"), goes on with some result; silOp and silArgs
\* then record an undefined call and the slot only.
Project(op, slot, from, index, defined, asserted, T, value) ==
  /\ ~aborted
  /\ getASTType(handle[from]) \in CanTypes
  /\ IF defined
       THEN /\ silOp' = op
            /\ silArgs' = [slot |-> slot, T |-> getASTType(handle[from]),
                           category |-> getCategory(handle[from]),
                           self |-> handle[from], index |-> index]
            /\ IF assertsEnabled /\ ~ConstructorAssertHolds(T)
                 THEN /\ aborted' = TRUE
                      /\ UNCHANGED <<handle, silRet>>
                 ELSE /\ handle' = [handle EXCEPT ![slot] = value]
                      /\ silRet' = value
                      /\ UNCHANGED aborted
       ELSE /\ silOp' = "undefined"
            /\ silArgs' = [slot |-> slot, T |-> NullType, category |-> Object]
            /\ \/ /\ aborted' = TRUE
                  /\ UNCHANGED <<handle, silRet>>
               \/ /\ ~(asserted /\ assertsEnabled)
                  /\ \E w \in UndefinedResults :
                       /\ handle' = [handle EXCEPT ![slot] = w]
                       /\ silRet' = w
                  /\ UNCHANGED aborted
  /\ UNCHANGED <<silFlag, assertsEnabled, declVars, posVars, listVars>>

\* Whether getTupleElementType(index) is defined on a handle: cast<> and
\* the element array assert it.
IsTupleWithElement(value, index) ==
  /\ ~isNull(value)
  /\ TypeNode(getASTType(value)).kind = "Tuple"
  /\ index < getNumElements(getASTType(value))

Call_getTupleElementType(slot, from, index) ==
  Project("getTupleElementType", slot, from, index,
          IsTupleWithElement(handle[from], index), TRUE,
          getElementType(getASTType(handle[from]), index),
          getTupleElementType(handle[from], index))

Call_getReferenceStorageReferentType(slot, from) ==
  Project("getReferenceStorageReferentType", slot, from, 0,
          ~isNull(handle[from]), FALSE,
          getReferenceStorageReferent(getASTType(handle[from])),
          getReferenceStorageReferentType(handle[from]))

Call_getSuperclass(slot, from) ==
  Project("getSuperclass", slot, from, 0,
          ~isNull(handle[from]), FALSE,
          getSuperclass_Type(getASTType(handle[from])),
          getSuperclass(handle[from]))

\* SILType(): the default constructor.
Call_SILType(slot) ==
  /\ ~aborted
  /\ silOp' = "SILType"
  /\ silArgs' = [slot |-> slot, T |-> NullType, category |-> Object]
  /\ handle' = [handle EXCEPT ![slot] = DefaultSILType]
  /\ silRet' = DefaultSILType
  /\ UNCHANGED <<silFlag, assertsEnabled, aborted, declVars, posVars, listVars>>

\* DenseMapInfo<SILType>::getEmptyKey() and getTombstoneKey().
Call_getEmptyKey(slot) ==
  /\ ~aborted
  /\ silOp' = "getEmptyKey"
  /\ silArgs' = [slot |-> slot, T |-> NullType, category |-> Object]
  /\ handle' = [handle EXCEPT ![slot] = getEmptyKey]
  /\ silRet' = getEmptyKey
  /\ UNCHANGED <<silFlag, assertsEnabled, aborted, declVars, posVars, listVars>>

Call_getTombstoneKey(slot) ==
  /\ ~aborted
  /\ silOp' = "getTombstoneKey"
  /\ silArgs' = [slot |-> slot, T |-> NullType, category |-> Object]
  /\ handle' = [handle EXCEPT ![slot] = getTombstoneKey]
  /\ silRet' = getTombstoneKey
  /\ UNCHANGED <<silFlag, assertsEnabled, aborted, declVars, posVars, listVars>>

\* getFromOpaqueValue(other.getOpaqueValue()): a handle through a void *.
Call_getFromOpaqueValue(slot, from) ==
  /\ ~aborted
  /\ silOp' = "getFromOpaqueValue"
  /\ silArgs' = [slot |-> slot, T |-> getASTType(handle[from]),
                 category |-> getCategory(handle[from])]
  /\ handle' = [handle EXCEPT
                  ![slot] = getFromOpaqueValue(getOpaqueValue(handle[from]))]
  /\ silRet' = getFromOpaqueValue(getOpaqueValue(handle[from]))
  /\ UNCHANGED <<silFlag, assertsEnabled, aborted, declVars, posVars, listVars>>

SilInit ==
  /\ handle = [slot \in Slots |-> DefaultSILType]
  /\ silOp = "init"
  /\ silArgs = [slot |-> 1, T |-> NullType, category |-> Object]
  /\ silRet = DefaultSILType
  /\ silFlag = FALSE
  /\ assertsEnabled \in BOOLEAN

Init ==
  /\ DeclInit
  /\ PosInit
  /\ ListInit
  /\ SilInit
  /\ aborted = FALSE

SilNext ==
  \/ \E slot \in Slots, T \in CanTypes, category \in SILValueCategory :
       Call_getPrimitiveType(slot, T, category)
  \/ \E slot \in Slots, T \in CanTypes : Call_getPrimitiveObjectType(slot, T)
  \/ \E slot \in Slots, T \in CanTypes : Call_getPrimitiveAddressType(slot, T)
  \/ \E slot \in Slots, from \in Slots, Category \in SILValueCategory :
       Call_getCategoryType(slot, from, Category)
  \/ \E slot \in Slots, from \in Slots, other \in Slots :
       Call_copyCategory(slot, from, other)
  \/ \E slot \in Slots, from \in Slots : Call_getAddressType(slot, from)
  \/ \E slot \in Slots, from \in Slots : Call_getObjectType(slot, from)
  \/ \E from \in Slots : Call_isBlockPointerCompatible(from)
  \/ \E from \in Slots : Call_isClassOrClassMetatype(from)
  \/ \E slot \in Slots, from \in Slots, index \in 0..TupleIndexLimit :
       Call_getTupleElementType(slot, from, index)
  \/ \E slot \in Slots, from \in Slots :
       Call_getReferenceStorageReferentType(slot, from)
  \/ \E slot \in Slots, from \in Slots : Call_getSuperclass(slot, from)
  \/ \E slot \in Slots : Call_SILType(slot)
  \/ \E slot \in Slots : Call_getEmptyKey(slot)
  \/ \E slot \in Slots : Call_getTombstoneKey(slot)
  \/ \E slot \in Slots, from \in Slots : Call_getFromOpaqueValue(slot, from)

SpecSIL == Init /\ [][SilNext]_vars

ListNext ==
  \/ \E D \in IterableDeclContexts : delayDeclList(D)
  \/ \E n \in 0..MaxQueue : parseAllDelayedDeclLists(n)

SpecLists == Init /\ [][ListNext]_vars

PosNext ==
  \/ \E Pos \in ParserPositions, InPoundLineEnv \in BOOLEAN :
       markParserPosition(Pos, InPoundLineEnv)
  \/ takeParserPosition

SpecPos == Init /\ [][PosNext]_vars

DeclNext ==
  \/ \E Kind \in DelayedDeclKind, Flags \in FlagValues,
        ParentContext \in DeclContexts, BodyRange \in SourceRanges :
       \E PreviousLoc \in PreviousLocs(BodyRange) :
         delayDecl(Kind, Flags, ParentContext, BodyRange, PreviousLoc)
  \/ \E TLCD \in DeclContexts, BodyRange \in SourceRanges :
       \E PreviousLoc \in PreviousLocs(BodyRange) :
         delayTopLevel(TLCD, BodyRange, PreviousLoc)
  \/ Call_hasDelayedDecl
  \/ Call_getDelayedDeclKind
  \/ Call_getDelayedDeclLoc
  \/ Call_getDelayedDeclContext
  \/ takeDelayedDeclState

SpecDecl == Init /\ [][DeclNext]_vars

\* ------------------------------------------------------------------------
\* Properties of the code-completion delayed decl
\* ------------------------------------------------------------------------
Range(seq) == {seq[i] : i \in 1..Len(seq)}

NoDuplicates(seq) == \A i, j \in 1..Len(seq) : seq[i] = seq[j] => i = j

Inspectors ==
  {"getDelayedDeclKind", "getDelayedDeclLoc", "getDelayedDeclContext"}

\* C1: a delayDecl or delayTopLevel called while a code-completion delayed
\* decl is pending is fatal and leaves the pending record in place; no record
\* stored in the slot is ever replaced by another (a pending record leaves the
\* slot only through takeDelayedDeclState), so every record allocated so far
\* is either the one pending or one that was taken.
C1_DelayWhilePendingIsFatal ==
  /\ [][(hasDelayedDecl /\ declOp' = "delayDecl")
          => (aborted' /\ UNCHANGED CodeCompletionDelayedDeclState)]_vars
  /\ [][(hasDelayedDecl /\ hasDelayedDecl')
          => UNCHANGED CodeCompletionDelayedDeclState]_vars
  /\ [](\A a \in 1..(nextAddr - 1) :
          a = CodeCompletionDelayedDeclState.addr \/ a \in Range(takenLog))

\* C1 witness: a delayDecl hit a pending record and the process died with
\* the record still pending.
C1_Witness ==
  /\ aborted
  /\ declOp = "delayDecl"
  /\ hasDelayedDecl
  /\ nextAddr = 2

\* C2: takeDelayedDeclState returns the pointer that was in the slot and
\* leaves the slot empty, so a take directly after a take returns null; no
\* record is handed out twice, and a record handed out is no longer pending.
C2_TakeEmptiesSlot ==
  /\ [][declOp' = "takeDelayedDeclState"
          => /\ declRet' = [tag |-> "state",
                            val |-> CodeCompletionDelayedDeclState]
             /\ ~hasDelayedDecl'
             /\ (declOp = "takeDelayedDeclState"
                   => declRet'.val = NullState)]_vars
  /\ [](declOp = "takeDelayedDeclState" => ~hasDelayedDecl)
  /\ [](NoDuplicates(takenLog))
  /\ [](CodeCompletionDelayedDeclState.addr \notin Range(takenLog))

\* C2 witness: two takes in a row after a delayDecl; the first got the
\* record, the second got null.
C2_Witness ==
  /\ declOp = "takeDelayedDeclState"
  /\ declPrevOp = "takeDelayedDeclState"
  /\ Len(takenLog) = 1
  /\ declRet = [tag |-> "state", val |-> NullState]
  /\ ~hasDelayedDecl

\* C3: while the record stored by delayDecl(kind, flags, ctx, range, prev) is
\* pending, hasDelayedDecl() is true and the inspectors return kind,
\* range.Start and ctx; an inspector call leaves the record pending and
\* unchanged; the record takeDelayedDeclState returns has BodyEnd = range.End
\* and BodyPos.PrevLoc = prev.
C3_DelayedDeclRoundTrip ==
  /\ [](hasDelayedDecl
          => /\ declArgs # NoArgs
             /\ getDelayedDeclKind = declArgs.Kind
             /\ getDelayedDeclLoc = declArgs.BodyRange.Start
             /\ getDelayedDeclContext = declArgs.ParentContext)
  /\ [][(declOp' = "delayDecl" /\ ~aborted') => hasDelayedDecl']_vars
  /\ [][(declOp' \in Inspectors /\ hasDelayedDecl)
          => /\ UNCHANGED CodeCompletionDelayedDeclState
             /\ declOp' = "getDelayedDeclKind"
                  => declRet' = [tag |-> "kind", val |-> declArgs.Kind]
             /\ declOp' = "getDelayedDeclLoc"
                  => declRet' = [tag |-> "loc",
                                 val |-> declArgs.BodyRange.Start]
             /\ declOp' = "getDelayedDeclContext"
                  => declRet' = [tag |-> "context",
                                 val |-> declArgs.ParentContext]]_vars
  /\ [][(declOp' = "takeDelayedDeclState" /\ hasDelayedDecl)
          => /\ declRet'.val.BodyEnd = declArgs.BodyRange.End
             /\ declRet'.val.BodyPos.PrevLoc = declArgs.PreviousLoc
             /\ declRet'.val.Flags = declArgs.Flags]_vars

\* C3 witness: a record was delayed, inspected twice and then taken, and the
\* record taken carries the end of the range given to delayDecl.
C3_Witness ==
  /\ declOp = "takeDelayedDeclState"
  /\ declPrevOp \in Inspectors
  /\ declRet.tag = "state"
  /\ declRet.val # NullState
  /\ declRet.val.BodyEnd = declArgs.BodyRange.End
  /\ declRet.val.BodyPos.Loc = declArgs.BodyRange.Start
  /\ declRet.val.BodyPos.Loc # declRet.val.BodyEnd

\* ------------------------------------------------------------------------
\* Properties of the marked parser position
\* ------------------------------------------------------------------------
\* The remembered calls are all the calls made since construction.
HistoryComplete == posCalls <= HistLen

\* The remembered marks, by index.
Marks == {i \in 1..Len(posHist) : posHist[i].op = "mark"}

Max(S) == CHOOSE x \in S : \A y \in S : y <= x

\* C4: a takeParserPosition that directly follows a markParserPosition
\* returns the position of that mark; one that directly follows another take,
\* or is the first call on a freshly constructed state, returns the invalid
\* position; after a take the stored position is the invalid one.
C4_TakeReturnsAndResets ==
  /\ \A i \in 1..Len(posHist) :
       posHist[i].op = "take"
         => /\ (i > 1 /\ posHist[i - 1].op = "mark")
                 => posHist[i].pos = posHist[i - 1].pos
            /\ (i > 1 /\ posHist[i - 1].op = "take")
                 => posHist[i].pos = InvalidPosition
            /\ (i = 1 /\ HistoryComplete)
                 => posHist[i].pos = InvalidPosition
  /\ (posHist # <<>> /\ posHist[Len(posHist)].op = "take")
       => MarkedPos = InvalidPosition
  /\ (posHist = <<>> /\ HistoryComplete) => MarkedPos = InvalidPosition

\* C4 witness: a valid position was marked and taken, and the take after it
\* returned the invalid position.
C4_Witness ==
  /\ Len(posHist) = 3
  /\ posHist[1].op = "mark" /\ posHist[1].pos # InvalidPosition
  /\ posHist[2].op = "take" /\ posHist[2].pos = posHist[1].pos
  /\ posHist[3].op = "take" /\ posHist[3].pos = InvalidPosition

\* C5: after a markParserPosition the stored position and the
\* InPoundLineEnvironment flag are those of that call, whatever was marked
\* before; a take after several marks returns the position of the last one.
C5_LastMarkWins ==
  /\ (posHist # <<>> /\ posHist[Len(posHist)].op = "mark")
       => /\ MarkedPos = posHist[Len(posHist)].pos
          /\ InPoundLineEnvironment = posHist[Len(posHist)].flag
  /\ \A i \in 2..Len(posHist) :
       (posHist[i].op = "take" /\ posHist[i - 1].op = "mark")
         => /\ posHist[i].pos = posHist[i - 1].pos
            /\ (i = Len(posHist)
                  => InPoundLineEnvironment = posHist[i - 1].flag)

\* C5 witness: two marks with different positions and flags, then a take
\* that returned the second position, the flag being the second one.
C5_Witness ==
  /\ Len(posHist) = 3
  /\ posHist[1].op = "mark" /\ posHist[2].op = "mark"
  /\ posHist[1].pos # InvalidPosition
  /\ posHist[2].pos # InvalidPosition
  /\ posHist[1].pos # posHist[2].pos
  /\ posHist[1].flag # posHist[2].flag
  /\ posHist[3].op = "take" /\ posHist[3].pos = posHist[2].pos
  /\ InPoundLineEnvironment = posHist[2].flag

\* C6: InPoundLineEnvironment is the flag of the latest markParserPosition,
\* however many takeParserPosition calls followed it (false when nothing was
\* ever marked).
C6_TakeKeepsPoundLineFlag ==
  /\ Marks # {} => InPoundLineEnvironment = posHist[Max(Marks)].flag
  /\ (Marks = {} /\ HistoryComplete) => InPoundLineEnvironment = FALSE

\* C6 witness: markParserPosition(P, true), then two takes, the second
\* returning the invalid position, and the flag is still true.
C6_Witness ==
  /\ Len(posHist) = 3
  /\ posHist[1] = MarkEvent(1, TRUE)
  /\ posHist[2] = TakeEvent(1)
  /\ posHist[3] = TakeEvent(InvalidPosition)
  /\ InPoundLineEnvironment = TRUE
  /\ MarkedPos = InvalidPosition

\* ------------------------------------------------------------------------
\* Properties of the delayed decl lists
\* ------------------------------------------------------------------------
IsPrefix(p, q) == Len(p) <= Len(q) /\ p = SubSeq(q, 1, Len(p))

\* How many member parses of the last parseAllDelayedDeclLists succeeded.
Succeeded == IF parseFailed THEN Len(invoked) - 1 ELSE Len(invoked)

\* C7: the contexts parsed so far followed by the contexts still queued are
\* the arguments of the delayDeclList calls in call order, duplicates
\* included; a parseAllDelayedDeclLists calls the parser on the queue's
\* entries from the front, in order, and after one that did not fail it has
\* called it on every entry and the queue is empty.
C7_ParseInDelayOrder ==
  /\ parsedLog \o DelayedDeclLists = delayedLog
  /\ IsPrefix(invoked, queueBefore)
  /\ (listOp = "parseAllDelayedDeclLists" /\ ~parseFailed)
       => /\ invoked = queueBefore
          /\ DelayedDeclLists = <<>>
          /\ parsedLog = delayedLog

\* C7 witness: the same context was delayed twice around another one, and a
\* parseAllDelayedDeclLists parsed all three in that order.
C7_Witness ==
  /\ listOp = "parseAllDelayedDeclLists"
  /\ ~parseFailed
  /\ delayedLog = <<"idcB", "idcA", "idcB">>
  /\ invoked = delayedLog
  /\ DelayedDeclLists = <<>>

\* C8: after a parseAllDelayedDeclLists the queue is what it was less the
\* entries whose parse succeeded; when a parse failed the call reports the
\* failure, and the entry that failed and all entries behind it are still
\* queued in their order.
C8_FailedEntryStaysQueued ==
  listOp = "parseAllDelayedDeclLists"
    => /\ DelayedDeclLists
           = SubSeq(queueBefore, Succeeded + 1, Len(queueBefore))
       /\ parseFailed
           => /\ invoked # <<>>
              /\ DelayedDeclLists # <<>>
              /\ Head(DelayedDeclLists) = invoked[Len(invoked)]
       /\ parseFailed <=> DelayedDeclLists # <<>>

\* C8 witness: of three queued contexts the first was parsed and the second
\* failed; the second and the third are still queued.
C8_Witness ==
  /\ listOp = "parseAllDelayedDeclLists"
  /\ parseFailed
  /\ queueBefore = <<"idcA", "idcB", "idcA">>
  /\ invoked = <<"idcA", "idcB">>
  /\ DelayedDeclLists = <<"idcB", "idcA">>

\* ------------------------------------------------------------------------
\* Properties of SILType
\* ------------------------------------------------------------------------
ConstructorOps ==
  {"getPrimitiveType", "getPrimitiveObjectType", "getPrimitiveAddressType"}

\* C9: two handles compare equal with operator== exactly when their AST
\* types and their categories are equal, null handles included, and
\* operator!= is the negation of operator==.
C9_EqualityIsTypeAndCategory ==
  \A a, b \in Slots :
    /\ OpEq(handle[a], handle[b])
         <=> /\ getASTType(handle[a]) = getASTType(handle[b])
             /\ getCategory(handle[a]) = getCategory(handle[b])
    /\ OpNe(handle[a], handle[b]) <=> ~OpEq(handle[a], handle[b])

\* C9 witness: two null handles of different categories, built by
\* getPrimitiveAddressType(null) and SILType(): they are not equal.
C9_Witness ==
  /\ isNull(handle[1]) /\ isNull(handle[2])
  /\ getCategory(handle[1]) = Address
  /\ getCategory(handle[2]) = Object
  /\ OpNe(handle[1], handle[2])
  /\ silOp = "getPrimitiveAddressType"

\* C10: the handle getPrimitiveType(t, c) returns for a legal lowered type t
\* has category c and AST type t; getPrimitiveObjectType(t) and
\* getPrimitiveAddressType(t) return what getPrimitiveType(t, Object) and
\* getPrimitiveType(t, Address) return.
C10_PrimitiveTypeRoundTrip ==
  (silOp \in ConstructorOps /\ ~aborted /\ silArgs.T \in LegalTypes)
    => /\ getCategory(silRet) = silArgs.category
       /\ getASTType(silRet) = silArgs.T
       /\ handle[silArgs.slot] = silRet
       /\ silOp = "getPrimitiveObjectType"
            => /\ silArgs.category = Object
               /\ OpEq(silRet, getPrimitiveType(silArgs.T, Object))
       /\ silOp = "getPrimitiveAddressType"
            => /\ silArgs.category = Address
               /\ OpEq(silRet, getPrimitiveType(silArgs.T, Address))

\* C10 witness: getPrimitiveAddressType of a legal type returned an address
\* handle of that type, the other slot holding the object handle of it.
C10_Witness ==
  /\ silOp = "getPrimitiveAddressType"
  /\ silArgs.T \in LegalTypes
  /\ getCategory(silRet) = Address
  /\ getASTType(silRet) = silArgs.T
  /\ \E s \in Slots : /\ getASTType(handle[s]) = silArgs.T
                      /\ getCategory(handle[s]) = Object

CategoryOps ==
  {"getCategoryType", "copyCategory", "getAddressType", "getObjectType"}

\* C11: getCategoryType, copyCategory, getAddressType and getObjectType
\* return a handle of the same AST type whose category is exactly the one
\* asked for; hence, for every handle h held and all categories c and d,
\* h.getCategoryType(c).getCategoryType(d) == h.getCategoryType(d),
\* h.getAddressType().getObjectType().getAddressType() == h.getAddressType()
\* and h.getCategoryType(h.getCategory()) == h.
C11_CategoryOpsKeepType ==
  /\ (silOp \in CategoryOps /\ ~aborted)
       => /\ getASTType(silRet) = getASTType(silArgs.self)
          /\ getCategory(silRet) = silArgs.category
          /\ silOp = "getAddressType" => getCategory(silRet) = Address
          /\ silOp = "getObjectType" => getCategory(silRet) = Object
  /\ \A s \in Slots :
       /\ \A c, d \in SILValueCategory :
            OpEq(getCategoryType(getCategoryType(handle[s], c), d),
                 getCategoryType(handle[s], d))
       /\ OpEq(getAddressType(getObjectType(getAddressType(handle[s]))),
               getAddressType(handle[s]))
       /\ OpEq(getCategoryType(handle[s], getCategory(handle[s])), handle[s])
       /\ \A t \in Slots :
            /\ getASTType(copyCategory(handle[s], handle[t]))
                 = getASTType(handle[s])
            /\ getCategory(copyCategory(handle[s], handle[t]))
                 = getCategory(handle[t])

\* C11 witness: getObjectType was called on an address handle of a legal
\* type and returned the object handle of that type.
C11_Witness ==
  /\ silOp = "getObjectType"
  /\ ~aborted
  /\ getCategory(silArgs.self) = Address
  /\ getASTType(silArgs.self) \in LegalTypes
  /\ getCategory(silRet) = Object
  /\ getASTType(silRet) = getASTType(silArgs.self)

\* The operations that go through SILType(CanType, SILValueCategory).
CheckedOps == ConstructorOps \cup CategoryOps

\* C12 as stated: a checked constructor given a non-null type that is not a
\* legal SIL type trips the assertion, so that every non-null handle these
\* constructors return is of a legal SIL type.
C12_IllegalTypeAlwaysTrips ==
  /\ (silOp \in CheckedOps /\ silArgs.T # NullType
        /\ ~isLegalSILType(silArgs.T))
       => aborted
  /\ (silOp \in CheckedOps /\ ~aborted /\ ~isNull(silRet))
       => isLegalSILType(getASTType(silRet))

\* C12 amended: in a build that compiles assert() in, a checked constructor
\* given a non-null type that is not a legal SIL type stops the process, and
\* every non-null handle these constructors return is of a legal SIL type;
\* in a build without asserts the handle is built from whatever type is
\* given. In both builds a null type passes and gives a null handle of the
\* category asked for.
C12_IllegalTypeTripsWithAsserts ==
  /\ assertsEnabled
       => /\ (silOp \in CheckedOps /\ silArgs.T # NullType
                /\ ~isLegalSILType(silArgs.T))
               => aborted
          /\ (silOp \in CheckedOps /\ ~aborted /\ ~isNull(silRet))
               => isLegalSILType(getASTType(silRet))
          /\ \A s \in Slots :
               getASTType(handle[s]) \in TypePointers
                 => isLegalSILType(getASTType(handle[s]))
  /\ (~assertsEnabled /\ silOp \in CheckedOps)
       => /\ ~aborted
          /\ getASTType(silRet) = silArgs.T
  /\ (silOp \in CheckedOps /\ silArgs.T = NullType)
       => /\ ~aborted
          /\ isNull(silRet)
          /\ getCategory(silRet) = silArgs.category

\* C12 witness: in a build with asserts, getPrimitiveType of a formal
\* function type stopped the process and no handle was returned.
C12_Witness ==
  /\ assertsEnabled
  /\ aborted
  /\ silOp = "getPrimitiveType"
  /\ silArgs.T # NullType
  /\ TypeNode(silArgs.T).kind = "Function"
  /\ \A s \in Slots : getASTType(handle[s]) # silArgs.T

\* The operations that return a handle of a type of the arena, or the
\* default null handle.
ValidHandleOps == CheckedOps \cup {"SILType"}

\* C13: handles that compare equal have equal hash_value and equal
\* DenseMapInfo::getHashValue, and isEqual is operator==; the empty key and
\* the tombstone key differ, and neither equals a handle returned by a
\* constructor or a category operation, a handle of any type of the arena
\* in either category, or the default null handle.
C13_HashAndSentinels ==
  /\ \A a, b \in Slots :
       /\ isEqual(handle[a], handle[b]) <=> OpEq(handle[a], handle[b])
       /\ OpEq(handle[a], handle[b])
            => /\ hash_value(handle[a]) = hash_value(handle[b])
               /\ getHashValue(handle[a]) = getHashValue(handle[b])
  /\ OpNe(getEmptyKey, getTombstoneKey)
  /\ (silOp \in ValidHandleOps /\ ~aborted)
       => /\ OpNe(silRet, getEmptyKey)
          /\ OpNe(silRet, getTombstoneKey)
  /\ \A s \in Slots :
       (getASTType(handle[s]) \in CanTypes
          /\ getCategory(handle[s]) \in SILValueCategory)
         => /\ OpNe(handle[s], getEmptyKey)
            /\ OpNe(handle[s], getTombstoneKey)
  /\ OpNe(DefaultSILType, getEmptyKey)
  /\ OpNe(DefaultSILType, getTombstoneKey)

\* C13 witness: one slot holds the empty key, and a constructor has just
\* returned an address handle of a type of the arena into the other.
C13_Witness ==
  /\ handle[1] = getEmptyKey
  /\ silOp = "getPrimitiveAddressType"
  /\ ~aborted
  /\ silArgs.slot = 2
  /\ silArgs.T \in LegalTypes
  /\ handle[2] = silRet
  /\ OpNe(handle[1], handle[2])
  /\ hash_value(handle[1]) # hash_value(handle[2])

\* Whether the type node with index k is a SIL function type of Block
\* representation.
IsBlockNode(k) ==
  /\ k \in 1..Len(TypeTable)
  /\ TypeTable[k].kind = "SILFunction"
  /\ TypeTable[k].rep = "Block"

\* C14: isBlockPointerCompatible() answers true exactly for a SIL function
\* type of Block representation and for an Optional whose payload is one;
\* an Optional of an Optional of a block, a function type of another
\* representation and an Optional of one give false, in either category.
C14_BlockPointerCompatible ==
  /\ (silOp = "isBlockPointerCompatible" /\ ~aborted
        /\ ~isNull(silArgs.self))
       => LET k == silArgs.T \div PtrUnit
          IN  silFlag <=> \/ IsBlockNode(k)
                          \/ /\ TypeTable[k].kind = "Optional"
                             /\ IsBlockNode(TypeTable[k].of)
  /\ \A s \in Slots :
       getASTType(handle[s]) \in TypePointers
         => LET k == getASTType(handle[s]) \div PtrUnit
            IN  /\ (TypeTable[k].kind = "Optional"
                      /\ TypeTable[TypeTable[k].of].kind = "Optional")
                     => ~isBlockPointerCompatible(handle[s])
                /\ (TypeTable[k].kind = "SILFunction"
                      /\ TypeTable[k].rep # "Block")
                     => ~isBlockPointerCompatible(handle[s])

\* C14 witness: the predicate was asked of a handle of the type
\* Optional<Optional<block>> and answered false.
C14_Witness ==
  /\ silOp = "isBlockPointerCompatible"
  /\ ~aborted
  /\ silArgs.T \in TypePointers
  /\ TypeNode(silArgs.T).kind = "Optional"
  /\ TypeNode(TypePointer(TypeNode(silArgs.T).of)).kind = "Optional"
  /\ IsBlockNode(TypeNode(TypePointer(TypeNode(silArgs.T).of)).of)
  /\ silFlag = FALSE

\* Whether the type at address t is a class type or the metatype of one.
IsClassOrMetatypeOfClass(t) ==
  \/ TypeNode(t).kind = "Class"
  \/ /\ TypeNode(t).kind = "Metatype"
     /\ TypeTable[TypeNode(t).of].kind = "Class"

\* C15 as stated: the answer of isClassOrClassMetatype() is that of the
\* referenced type alone, so it is the answer of the handle of the same
\* type in either category.
C15_AnswerIsOfTypeAlone ==
  (silOp = "isClassOrClassMetatype" /\ ~aborted /\ ~isNull(silArgs.self))
    => /\ silFlag <=> IsClassOrMetatypeOfClass(silArgs.T)
       /\ \A c \in SILValueCategory :
            silFlag <=> isClassOrClassMetatype(SILType(silArgs.T, c))

\* C15 amended: the member isClassOrClassMetatype() answers true exactly
\* for an object handle whose type is a class or the metatype of a class,
\* and false for every address handle; the static overload taking a type
\* answers by the type alone.
C15_AnswerIsOfObjectClassType ==
  /\ (silOp = "isClassOrClassMetatype" /\ ~aborted
        /\ ~isNull(silArgs.self))
       => (silFlag <=> /\ getCategory(silArgs.self) = Object
                       /\ IsClassOrMetatypeOfClass(silArgs.T))
  /\ (silOp = "isClassOrClassMetatype" /\ ~aborted
        /\ getCategory(silArgs.self) = Address)
       => ~silFlag
  /\ \A t \in TypePointers :
       isClassOrClassMetatype_Type(t) <=> IsClassOrMetatypeOfClass(t)

\* C15 witness: the predicate was asked of the address handle of a class
\* type, whose object handle is held too, and answered false.
C15_Witness ==
  /\ silOp = "isClassOrClassMetatype"
  /\ ~aborted
  /\ silArgs.T \in TypePointers
  /\ TypeNode(silArgs.T).kind = "Class"
  /\ getCategory(silArgs.self) = Address
  /\ silFlag = FALSE
  /\ \E s \in Slots : /\ getASTType(handle[s]) = silArgs.T
                       /\ getCategory(handle[s]) = Object
                       /\ isClassOrClassMetatype(handle[s])

\* C16: getTupleElementType(i) of a tuple handle, for a valid index, and
\* getReferenceStorageReferentType() return the element / the referent in
\* the category of the base handle; getSuperclass() returns the superclass
\* as an object handle whatever the category of the base, and the null
\* handle for a type without a superclass.
C16_ProjectionCategories ==
  /\ (silOp = "getTupleElementType" /\ ~aborted
        /\ IsTupleWithElement(silArgs.self, silArgs.index))
       => /\ getCategory(silRet) = getCategory(silArgs.self)
          /\ getASTType(silRet)
               = TypePointer(TypeNode(silArgs.T).elements[silArgs.index + 1])
          /\ handle[silArgs.slot] = silRet
  /\ (silOp = "getReferenceStorageReferentType" /\ ~aborted
        /\ ~isNull(silArgs.self))
       => /\ getCategory(silRet) = getCategory(silArgs.self)
          /\ getASTType(silRet)
               = IF TypeNode(silArgs.T).kind = "WeakStorage"
                   THEN TypePointer(TypeNode(silArgs.T).of)
                   ELSE silArgs.T
  /\ (silOp = "getSuperclass" /\ ~aborted /\ ~isNull(silArgs.self))
       => IF TypeNode(silArgs.T).kind = "Class" /\ TypeNode(silArgs.T).of # 0
            THEN /\ getCategory(silRet) = Object
                 /\ getASTType(silRet) = TypePointer(TypeNode(silArgs.T).of)
            ELSE /\ isNull(silRet)
                 /\ silRet = DefaultSILType

\* C16 witness: the second element of a tuple was taken from an address
\* handle and came back as an address handle of the element's type.
C16_Witness ==
  /\ silOp = "getTupleElementType"
  /\ ~aborted
  /\ silArgs.index = 1
  /\ IsTupleWithElement(silArgs.self, silArgs.index)
  /\ getCategory(silArgs.self) = Address
  /\ getCategory(silRet) = Address
  /\ getASTType(silRet) = TypePointer(TypeNode(silArgs.T).elements[2])

====
